---- MODULE Spec2Model ----
(***************************************************************************)
(* A model of dev/generate-ugen-stubs.py: the UGenStubGenerator visitor    *)
(* (decorator recognition, param() scanning, stub rendering) and the       *)
(* main() driver that runs it over the files of supriya/ugens.             *)
(*                                                                         *)
(* Syntax trees are records.  Text is text: every stub is the string the   *)
(* program writes, built from the same pieces in the same order.           *)
(***************************************************************************)
EXTENDS Integers, Sequences, FiniteSets, TLC

VARIABLES
    ugens_dir,        \* the directory: file name -> file content
    run,              \* number of completed runs of main()
    pc,               \* position of main(): "idle", "loop", "visit"
    ugen_files,       \* main(): the files of the for loop not yet processed
    generator,        \* main(): the UGenStubGenerator of the current file
    todo,             \* generate(): class nodes self.visit(tree) has yet to reach
    node,             \* visit_ClassDef: <<the node of the generator's last call>>
    ugen_decorator,   \* visit_ClassDef: <<>> (None) or <<the decorator found>>
    decorator_args,   \* visit_ClassDef: the local of that name
    params            \* visit_ClassDef: the local of that name

vars == <<ugens_dir, run, pc, ugen_files, generator, todo, node,
          ugen_decorator, decorator_args, params>>

(***************************************************************************)
(* Bounds of the model.                                                    *)
(***************************************************************************)
MaxDecorators == 2    \* decorators on a class
MaxBody == 2          \* statements in a scanned class body
MaxClasses == 2       \* top-level statements in a source file
MaxRuns == 2          \* runs of main()

(***************************************************************************)
(* Python values and the conversions the program applies to them.          *)
(***************************************************************************)
\* The value of an ast.Constant: t is its Python type.
Lit(t, b, i, s) == [t |-> t, b |-> b, i |-> i, s |-> s]
LBool(b) == Lit("bool", b, 0, "")
LInt(i) == Lit("int", FALSE, i, "")
LStr(s) == Lit("str", FALSE, 0, s)
LNone == Lit("none", FALSE, 0, "")

\* bool(v), also the test of `if v` and `not v`.
Truthy(v) ==
    CASE v.t = "bool" -> v.b
      [] v.t = "int" -> v.i # 0
      [] v.t = "str" -> v.s # ""
      [] OTHER -> FALSE

\* str(v), what an f-string puts for {v}.
PyStr(v) ==
    CASE v.t = "bool" -> IF v.b THEN "True" ELSE "False"
      [] v.t = "int" -> ToString(v.i)
      [] v.t = "str" -> v.s
      [] OTHER -> "None"

\* An expression node: an ast.Constant carrying a value, or another node.
Constant(v) == [kind |-> "Constant", value |-> v]
NameExpr == [kind |-> "Name", value |-> LNone]
UnaryOpExpr == [kind |-> "UnaryOp", value |-> LNone]

\* ast.keyword: arg is <<>> for **mapping (keyword.arg is None), else <<name>>.
Keyword(name, value) == [arg |-> <<name>>, value |-> value]
StarKeyword == [arg |-> <<>>, value |-> NameExpr]

\* A dict with string keys.
EmptyDict == [k \in {} |-> LNone]
DictSet(d, k, v) == [x \in DOMAIN d \cup {k} |-> IF x = k THEN v ELSE d[x]]
DictGet(d, k, default) == IF k \in DOMAIN d THEN d[k] ELSE default

\* sep.join(parts)
RECURSIVE Join(_, _)
Join(parts, sep) ==
    IF parts = <<>> THEN ""
    ELSE IF Len(parts) = 1 THEN parts[1]
    ELSE parts[1] \o sep \o Join(Tail(parts), sep)

RECURSIVE Concat(_)
Concat(seqs) == IF seqs = <<>> THEN <<>> ELSE Head(seqs) \o Concat(Tail(seqs))

(***************************************************************************)
(* Syntax-tree nodes.                                                      *)
(***************************************************************************)
\* A decorator: kind "Name" (@id), "Call" (@f(...)) or "Attribute" (@a.id);
\* func_kind is the kind of a call's func.
Decorator(kind, func_kind, id, keywords) ==
    [kind |-> kind, func_kind |-> func_kind, id |-> id, keywords |-> keywords]
BareDecorator(id) == Decorator("Name", "", id, <<>>)
CallDecorator(id, keywords) == Decorator("Call", "Name", id, keywords)
AttrDecorator(id) == Decorator("Attribute", "", id, <<>>)
AttrCallDecorator(id, keywords) == Decorator("Call", "Attribute", id, keywords)

\* An assignment target.
Target(kind, id) == [kind |-> kind, id |-> id]

\* The right-hand side of an assignment: kind "Call" (func_kind and func_id
\* describe call.func), "Other" (not a call) or "None" (no value).
Value(kind, func_kind, func_id, keywords) ==
    [kind |-> kind, func_kind |-> func_kind, func_id |-> func_id,
     keywords |-> keywords]
ParamCall(keywords) == Value("Call", "Name", "param", keywords)
NoValue == Value("None", "", "", <<>>)

\* A function argument and a function's ast.arguments; annotations and
\* defaults are carried as their unparsed text, "" standing for None.
Arg(name, annotation) == [arg |-> name, annotation |-> annotation]
Arguments(args, defaults, vararg, kwonlyargs, kw_defaults, kwarg) ==
    [args |-> args, defaults |-> defaults, vararg |-> vararg,
     kwonlyargs |-> kwonlyargs, kw_defaults |-> kw_defaults, kwarg |-> kwarg]
NoArguments == Arguments(<<>>, <<>>, <<>>, <<>>, <<>>, <<>>)

\* A base of a class: kind "Name" (id), "Attribute" (value.attr) or "Other".
Base(kind, id, value, attr) ==
    [kind |-> kind, id |-> id, value |-> value, attr |-> attr]

\* A statement node, of a module, of a class body or of any other block.
\* type is the class of the node.  The fields a node type does not have are
\* empty; body, handlers, orelse and finalbody are the blocks of statements
\* it holds.
Stmt(type, targets, value, name, decorator_list, bases, args, returns, body, handlers, orelse, finalbody) ==
    [type |-> type, targets |-> targets, value |-> value, name |-> name,
     decorator_list |-> decorator_list, bases |-> bases, args |-> args,
     returns |-> returns, body |-> body, handlers |-> handlers,
     orelse |-> orelse, finalbody |-> finalbody]
AnnAssign(target, value) ==
    Stmt("AnnAssign", <<target>>, value, "", <<>>, <<>>, NoArguments, "",
         <<>>, <<>>, <<>>, <<>>)
Assign(targets, value) ==
    Stmt("Assign", targets, value, "", <<>>, <<>>, NoArguments, "",
         <<>>, <<>>, <<>>, <<>>)
Pass ==
    Stmt("Pass", <<>>, NoValue, "", <<>>, <<>>, NoArguments, "",
         <<>>, <<>>, <<>>, <<>>)
FunctionDef(name, decorator_list, args, returns, body) ==
    Stmt("FunctionDef", <<>>, NoValue, name, decorator_list, <<>>, args, returns,
         body, <<>>, <<>>, <<>>)
ClassDef(name, decorator_list, bases, body) ==
    Stmt("ClassDef", <<>>, NoValue, name, decorator_list, bases, NoArguments, "",
         body, <<>>, <<>>, <<>>)
If(body, orelse) ==
    Stmt("If", <<>>, NoValue, "", <<>>, <<>>, NoArguments, "",
         body, <<>>, orelse, <<>>)
ExceptHandler(body) ==
    Stmt("ExceptHandler", <<>>, NoValue, "", <<>>, <<>>, NoArguments, "",
         body, <<>>, <<>>, <<>>)
Try(body, handlers, orelse, finalbody) ==
    Stmt("Try", <<>>, NoValue, "", <<>>, <<>>, NoArguments, "",
         body, handlers, orelse, finalbody)

(***************************************************************************)
(* UGenStubGenerator: the decorator recognizer.                            *)
(***************************************************************************)
\* Whether one decorator is the ugen marker (the tests of the loop body).
IsUgenDecorator(decorator) ==
    IF decorator.kind = "Call" /\ decorator.func_kind = "Name"
    THEN decorator.id = "ugen"
    ELSE decorator.kind = "Name" /\ decorator.id = "ugen"

\* The loop without its break: the last marker wins.
RECURSIVE FindUgenDecorator_NoBreak(_)
FindUgenDecorator_NoBreak(decorator_list) ==
    IF decorator_list = <<>> THEN <<>>
    ELSE LET later == FindUgenDecorator_NoBreak(Tail(decorator_list)) IN
         IF later # <<>> THEN later
         ELSE IF IsUgenDecorator(Head(decorator_list)) THEN <<Head(decorator_list)>>
         ELSE <<>>

\* The loop over node.decorator_list with its break: <<>> is None.
RECURSIVE FindUgenDecorator(_)
FindUgenDecorator(decorator_list) ==
    IF decorator_list = <<>> THEN <<>>
    ELSE IF IsUgenDecorator(Head(decorator_list)) THEN <<Head(decorator_list)>>
    ELSE FindUgenDecorator(Tail(decorator_list))

\* One iteration of the loop over decorator.keywords.
ParseKeyword(args, keyword) ==
    IF keyword.arg # <<>> /\ keyword.value.kind = "Constant"
    THEN DictSet(args, keyword.arg[1], keyword.value.value)
    ELSE args

RECURSIVE ParseKeywords(_, _)
ParseKeywords(args, keywords) ==
    IF keywords = <<>> THEN args
    ELSE ParseKeywords(ParseKeyword(args, Head(keywords)), Tail(keywords))

_parse_decorator_args(decorator) ==
    IF decorator.kind = "Call"
    THEN ParseKeywords(EmptyDict, decorator.keywords)
    ELSE EmptyDict

(***************************************************************************)
(* UGenStubGenerator: the parameter scanner.                               *)
(***************************************************************************)
RECURSIVE _get_unexpanded_arg(_)
_get_unexpanded_arg(keywords) ==
    IF keywords = <<>> THEN FALSE
    ELSE LET keyword == Head(keywords) IN
         IF keyword.arg = <<"unexpanded">> /\ keyword.value.kind = "Constant"
         THEN Truthy(keyword.value.value)
         ELSE _get_unexpanded_arg(Tail(keywords))

IsParamCall(value) ==
    value.kind = "Call" /\ value.func_kind = "Name" /\ value.func_id = "param"

\* The inner loop over item.targets of a plain assignment.
RECURSIVE AssignParams(_, _)
AssignParams(targets, value) ==
    IF targets = <<>> THEN <<>>
    ELSE (IF Head(targets).kind = "Name" /\ IsParamCall(value)
          THEN <<<<Head(targets).id, _get_unexpanded_arg(value.keywords)>>>>
          ELSE <<>>)
         \o AssignParams(Tail(targets), value)

\* What one statement of the body appends to params.
ItemParams(item) ==
    IF item.type = "AnnAssign" /\ item.value.kind = "Call"
    THEN IF IsParamCall(item.value) /\ item.targets[1].kind = "Name"
         THEN <<<<item.targets[1].id, _get_unexpanded_arg(item.value.keywords)>>>>
         ELSE <<>>
    ELSE IF item.type = "Assign"
    THEN AssignParams(item.targets, item.value)
    ELSE <<>>

RECURSIVE CollectFrom(_, _)
CollectFrom(collected, body) ==
    IF body = <<>> THEN collected
    ELSE CollectFrom(collected \o ItemParams(Head(body)), Tail(body))

\* A scanner that drops a name it has already seen.
RECURSIVE DropSeen(_, _)
DropSeen(seen, ps) ==
    IF ps = <<>> THEN <<>>
    ELSE IF Head(ps)[1] \in seen THEN DropSeen(seen, Tail(ps))
    ELSE <<Head(ps)>> \o DropSeen(seen \cup {Head(ps)[1]}, Tail(ps))

_collect_params_Deduplicated(cls) == DropSeen({}, CollectFrom(<<>>, cls.body))

_collect_params(cls) == CollectFrom(<<>>, cls.body)

(***************************************************************************)
(* UGenStubGenerator: the stub renderer.                                   *)
(***************************************************************************)
\* One entry of a parameter list, and the text its f-string gives: default
\* is <<>> for an entry without " = ", and <<text>> for one with it.
Entry(name, annotation, default) ==
    [name |-> name, annotation |-> annotation, default |-> default]
EntryStr(e) ==
    e.name \o (IF e.annotation = "" THEN "" ELSE ": " \o e.annotation)
           \o (IF e.default = <<>> THEN "" ELSE " = " \o e.default[1])

RECURSIVE EntryStrs(_)
EntryStrs(entries) ==
    IF entries = <<>> THEN <<>>
    ELSE <<EntryStr(Head(entries))>> \o EntryStrs(Tail(entries))

RateNames == <<"ar", "kr", "ir", "dr", "new">>

\* The test without its second half.
NeedsChannelCount_IgnoresFixed(args) ==
    Truthy(DictGet(args, "is_multichannel", LBool(FALSE)))

\* `is_multichannel and not fixed_channel_count`
NeedsChannelCount(args) ==
    /\ Truthy(DictGet(args, "is_multichannel", LBool(FALSE)))
    /\ ~Truthy(DictGet(args, "fixed_channel_count", LBool(FALSE)))

ChannelCountEntry(args) ==
    Entry("channel_count", "int", <<PyStr(DictGet(args, "channel_count", LInt(1)))>>)

InitTypeHint(unexpanded) ==
    IF unexpanded THEN "UGenVectorInput" ELSE "UGenScalarInput"

PropertyReturnType_AlwaysScalar(unexpanded) == "UGenScalar"

PropertyReturnType(unexpanded) ==
    IF unexpanded THEN "UGenVector" ELSE "UGenScalar"

RECURSIVE InitParamEntries(_)
InitParamEntries(ps) ==
    IF ps = <<>> THEN <<>>
    ELSE <<Entry(Head(ps)[1], InitTypeHint(Head(ps)[2]), <<"...">>)>>
         \o InitParamEntries(Tail(ps))

\* init_params without the keyword-only separator.
InitParams_NoSeparator(args, ps) ==
    <<Entry("self", "", <<>>),
      Entry("calculation_rate", "CalculationRateLike", <<>>)>>
    \o InitParamEntries(ps)
    \o <<Entry("**kwargs", "Any", <<>>)>>

\* init_params, as entries.
InitParams(args, ps) ==
    <<Entry("self", "", <<>>), Entry("*", "", <<>>),
      Entry("calculation_rate", "CalculationRateLike", <<>>)>>
    \o (IF NeedsChannelCount(args) THEN <<ChannelCountEntry(args)>> ELSE <<>>)
    \o InitParamEntries(ps)
    \o <<Entry("**kwargs", "Any", <<>>)>>

\* The accessors: one entry per parameter, annotation the return type.
RECURSIVE PropertyStubs(_)
PropertyStubs(ps) ==
    IF ps = <<>> THEN <<>>
    ELSE <<Entry(Head(ps)[1], PropertyReturnType(Head(ps)[2]), <<>>)>>
         \o PropertyStubs(Tail(ps))

RECURSIVE PropertyLines(_)
PropertyLines(props) ==
    IF props = <<>> THEN <<>>
    ELSE <<"    @property",
           "    def " \o Head(props).name \o "(self) -> "
               \o Head(props).annotation \o ": ...">>
         \o PropertyLines(Tail(props))

RECURSIVE RateParamEntries(_)
RateParamEntries(ps) ==
    IF ps = <<>> THEN <<>>
    ELSE <<Entry(Head(ps)[1], "UGenRecursiveInput", <<"...">>)>>
         \o RateParamEntries(Tail(ps))

\* rate_params, as entries.
RateParams(args, ps) ==
    <<Entry("cls", "", <<>>)>>
    \o (IF ps # <<>> THEN <<Entry("*", "", <<>>)>> ELSE <<>>)
    \o RateParamEntries(ps)
    \o (IF NeedsChannelCount(args) THEN <<ChannelCountEntry(args)>> ELSE <<>>)

\* A rate loop that asks for `is True`.
RateEmitted_IsTrue(args, rate_name) ==
    DictGet(args, rate_name, LBool(FALSE)) = LBool(TRUE)

\* The test of the rate loop: the rate is emitted unless
\* `not decorator_args.get(rate_name, False)`.
RateEmitted(args, rate_name) == Truthy(DictGet(args, rate_name, LBool(FALSE)))

\* The names of the factories emitted, in the order of the loop.
RECURSIVE RatesOf(_, _)
RatesOf(args, names) ==
    IF names = <<>> THEN <<>>
    ELSE (IF RateEmitted(args, Head(names)) THEN <<Head(names)>> ELSE <<>>)
         \o RatesOf(args, Tail(names))

EmittedRates(args) == RatesOf(args, RateNames)

RECURSIVE RateLines(_, _, _)
RateLines(rates, args, ps) ==
    IF rates = <<>> THEN <<>>
    ELSE <<"    @classmethod",
           "    def " \o Head(rates) \o "("
               \o Join(EntryStrs(RateParams(args, ps)), ", ")
               \o ") -> UGenOperable: ...">>
         \o RateLines(Tail(rates), args, ps)

\* lines, before the join.
UgenStubLines(class_name, args, ps) ==
    <<"class " \o class_name \o "(UGen):",
      "    def __init__(" \o Join(EntryStrs(InitParams(args, ps)), ", ")
          \o ") -> None: ...">>
    \o PropertyLines(PropertyStubs(ps))
    \o RateLines(EmittedRates(args), args, ps)

_generate_ugen_stub(class_name, args, ps) ==
    Join(UgenStubLines(class_name, args, ps), "\n")

(***************************************************************************)
(* UGenStubGenerator: the stubs of the classes without the marker.         *)
(***************************************************************************)
\* One positional argument: index i of args.args.
RegularArg(args, i) ==
    LET default_offset == Len(args.args) - Len(args.defaults) IN
    args.args[i].arg
    \o (IF args.args[i].annotation # ""
        THEN ": " \o args.args[i].annotation ELSE "")
    \o (IF i - 1 >= default_offset
        THEN " = " \o args.defaults[i - default_offset] ELSE "")

KwOnlyArg(args, i) ==
    args.kwonlyargs[i].arg
    \o (IF args.kwonlyargs[i].annotation # ""
        THEN ": " \o args.kwonlyargs[i].annotation ELSE "")
    \o (IF i <= Len(args.kw_defaults) /\ args.kw_defaults[i] # ""
        THEN " = " \o args.kw_defaults[i] ELSE "")

StarArg(stars, arg) ==
    stars \o arg.arg
    \o (IF arg.annotation # "" THEN ": " \o arg.annotation ELSE "")

_get_function_params(func) ==
    LET args == func.args IN
    Join([i \in 1..Len(args.args) |-> RegularArg(args, i)]
         \o (IF args.vararg # <<>> THEN <<StarArg("*", args.vararg[1])>> ELSE <<>>)
         \o [i \in 1..Len(args.kwonlyargs) |-> KwOnlyArg(args, i)]
         \o (IF args.kwarg # <<>> THEN <<StarArg("**", args.kwarg[1])>> ELSE <<>>),
         ", ")

_get_return_annotation(func) == IF func.returns # "" THEN func.returns ELSE "Any"

\* name.startswith("_")
StartsWithUnderscore(name) == Len(name) >= 1 /\ Head(name) = "_"

HasDecorator(item, id) ==
    \E i \in 1..Len(item.decorator_list) :
        item.decorator_list[i].kind = "Name" /\ item.decorator_list[i].id = id

\* The lines one statement of the body adds to a stub without the marker.
MethodLines(item) ==
    IF item.type # "FunctionDef" THEN <<>>
    ELSE IF item.name = "__init__"
    THEN <<"    def __init__(" \o _get_function_params(item) \o ") -> None: ...">>
    ELSE IF ~StartsWithUnderscore(item.name)
            \/ item.name \in {"__str__", "__repr__", "__plot__"}
    THEN LET ps == _get_function_params(item)
             return_type == _get_return_annotation(item)
             plain == "    def " \o item.name \o "(" \o ps \o ") -> "
                      \o return_type \o ": ..."
         IN IF HasDecorator(item, "property")
            THEN <<"    @property",
                   "    def " \o item.name \o "(self) -> " \o return_type \o ": ...">>
            ELSE IF HasDecorator(item, "staticmethod")
            THEN <<"    @staticmethod", plain>>
            ELSE IF HasDecorator(item, "classmethod")
            THEN <<"    @classmethod", plain>>
            ELSE <<plain>>
    ELSE <<>>

RECURSIVE BaseNames(_)
BaseNames(bases) ==
    IF bases = <<>> THEN <<>>
    ELSE (CASE Head(bases).kind = "Name" -> <<Head(bases).id>>
            [] Head(bases).kind = "Attribute" ->
                   <<Head(bases).value \o "." \o Head(bases).attr>>
            [] OTHER -> <<>>)
         \o BaseNames(Tail(bases))

_generate_non_ugen_stub(cls) ==
    LET bases == BaseNames(cls.bases)
        bases_str == IF bases # <<>> THEN "(" \o Join(bases, ", ") \o ")" ELSE ""
        has_methods == \E i \in 1..Len(cls.body) : cls.body[i].type = "FunctionDef"
    IN Join(<<"class " \o cls.name \o bases_str \o ":">>
            \o Concat([i \in 1..Len(cls.body) |-> MethodLines(cls.body[i])])
            \o (IF has_methods THEN <<>> ELSE <<"    ...">>),
            "\n")

(***************************************************************************)
(* The two traversals of a parsed file.  A module is the sequence of its   *)
(* top-level statements.                                                   *)
(***************************************************************************)
\* ast.iter_child_nodes: the statements a node holds, in the order of its
\* fields.  (Its expressions hold no class definition.)
IterChildNodes(stmt) == stmt.body \o stmt.handlers \o stmt.orelse \o stmt.finalbody

IsClassDef(stmt) == stmt.type = "ClassDef"

\* NodeVisitor: the class definitions in the order visit_ClassDef is called
\* for them.  A class is handled, then generic_visit descends into it; any
\* other statement is only descended into; then comes the next sibling.
RECURSIVE VisitOrder(_)
VisitOrder(stmts) ==
    IF stmts = <<>> THEN <<>>
    ELSE (IF IsClassDef(Head(stmts)) THEN <<Head(stmts)>> ELSE <<>>)
         \o VisitOrder(IterChildNodes(Head(stmts)))
         \o VisitOrder(Tail(stmts))

\* ast.walk: the class definitions breadth first, the nodes of one depth
\* before those of the next.
RECURSIVE Walk(_)
Walk(level) ==
    IF level = <<>> THEN <<>>
    ELSE SelectSeq(level, IsClassDef)
         \o Walk(Concat([i \in 1..Len(level) |-> IterChildNodes(level[i])]))

(***************************************************************************)
(* UGenStubGenerator: construction and generate().                         *)
(***************************************************************************)
\* A generator that keeps the lists of the generator before it.
NewGenerator_Shared(source_path) ==
    [source_path |-> source_path, ugen_classes |-> generator.ugen_classes,
     non_ugen_classes |-> generator.non_ugen_classes]

\* UGenStubGenerator.__init__: the fields the output is built from.
NewGenerator(source_path) ==
    [source_path |-> source_path, ugen_classes |-> <<>>,
     non_ugen_classes |-> <<>>]

InList(x, list) == \E i \in 1..Len(list) : list[i] = x

RECURSIVE NonUgenStubsOf(_, _)
NonUgenStubsOf(walked, names) ==
    IF walked = <<>> THEN <<>>
    ELSE (IF InList(Head(walked).name, names)
          THEN <<_generate_non_ugen_stub(Head(walked))>> ELSE <<>>)
         \o NonUgenStubsOf(Tail(walked), names)

\* tree is the file of gen.source_path, read and parsed again.
_collect_non_ugen_stubs(gen, tree) ==
    IF gen.non_ugen_classes = <<>> THEN <<>>
    ELSE NonUgenStubsOf(Walk(tree), gen.non_ugen_classes)

Preamble ==
    <<"from typing import Any",
      "",
      "from supriya.typing import CalculationRateLike",
      "from supriya.ugens.core import UGen, UGenOperable, UGenRecursiveInput, UGenScalar, UGenScalarInput, UGenVector, UGenVectorInput",
      "">>

\* Each stub followed by an empty line.
RECURSIVE WithBlankLines(_)
WithBlankLines(stubs) ==
    IF stubs = <<>> THEN <<>>
    ELSE <<Head(stubs), "">> \o WithBlankLines(Tail(stubs))

\* "\n".join(lines).rstrip(): no line of a stub ends in white space, so the
\* white space at the end of the text is the newlines of its empty last lines.
RECURSIVE DropBlankTail(_)
DropBlankTail(lines) ==
    IF lines # <<>> /\ lines[Len(lines)] = ""
    THEN DropBlankTail(SubSeq(lines, 1, Len(lines) - 1))
    ELSE lines

\* A document with the stubs of the marked classes first.
StubContent_UgenFirst(gen, tree) ==
    Join(DropBlankTail(Preamble
                       \o WithBlankLines(gen.ugen_classes)
                       \o WithBlankLines(_collect_non_ugen_stubs(gen, tree))),
         "\n") \o "\n"

\* The document generate() returns once the tree has been visited.
StubContent(gen, tree) ==
    Join(DropBlankTail(Preamble
                       \o WithBlankLines(_collect_non_ugen_stubs(gen, tree))
                       \o WithBlankLines(gen.ugen_classes)),
         "\n") \o "\n"

(***************************************************************************)
(* main(): the files of supriya/ugens.  A path is the name of a file of    *)
(* the directory, and a name is the sequence of its code points, which is  *)
(* what Python compares and searches.                                      *)
(***************************************************************************)
\* The str literals of main().
DotPy == <<46, 112, 121>>                     \* ".py"
DotPyi == <<46, 112, 121, 105>>               \* ".pyi"
Denylist ==
    {<<95, 95, 105, 110, 105, 116, 95, 95>>,             \* "__init__"
     <<99, 111, 114, 101>>,                              \* "core"
     <<99, 111, 109, 112, 105, 108, 101, 114, 115>>,     \* "compilers"
     <<102, 97, 99, 116, 111, 114, 105, 101, 115>>}      \* "factories"

\* name.rfind(c), counted from 1: 0 when c is not in name.
RFind(name, c) ==
    IF \E i \in 1..Len(name) : name[i] = c
    THEN CHOOSE i \in 1..Len(name) :
             name[i] = c /\ \A j \in (i + 1)..Len(name) : name[j] # c
    ELSE 0

\* path.suffix: from the last dot on, unless that dot begins or ends the name.
Suffix(name) ==
    LET i == RFind(name, 46) IN
    IF 1 < i /\ i < Len(name) THEN SubSeq(name, i, Len(name)) ELSE <<>>

\* path.stem
Stem(name) == SubSeq(name, 1, Len(name) - Len(Suffix(name)))

\* name.endswith(suffix)
EndsWith(name, suffix) ==
    /\ Len(name) >= Len(suffix)
    /\ SubSeq(name, Len(name) - Len(suffix) + 1, Len(name)) = suffix

\* a < b for two str: by code point, a proper prefix first.
RECURSIVE StrLess(_, _)
StrLess(a, b) ==
    IF b = <<>> THEN FALSE
    ELSE IF a = <<>> THEN TRUE
    ELSE IF Head(a) = Head(b) THEN StrLess(Tail(a), Tail(b))
    ELSE Head(a) < Head(b)

\* ugens_dir.glob("*.py") without the files of a denylisted stem.
Glob(dir) == {f \in DOMAIN dir : EndsWith(f, DotPy) /\ Stem(f) \notin Denylist}

\* sorted(ugen_files): the paths of one directory compare as their names.
RECURSIVE Sorted(_)
Sorted(files) ==
    IF files = {} THEN <<>>
    ELSE LET first == CHOOSE f \in files : \A g \in files : ~StrLess(g, f)
         IN <<first>> \o Sorted(files \ {first})

\* The test of the variant that skips the classes without the marker.
HasClasses_UgenOnly(gen) == gen.ugen_classes # <<>>

\* `if generator.ugen_classes or generator.non_ugen_classes`
HasClasses(gen) == gen.ugen_classes # <<>> \/ gen.non_ugen_classes # <<>>

\* ugen_file.with_suffix(".pyi")
StubFile(path) == Stem(path) \o DotPyi

\* stub_file.write_text(stub_content)
WriteText(dir, path, content) ==
    [f \in DOMAIN dir \cup {path} |-> IF f = path THEN content ELSE dir[f]]

(***************************************************************************)
(* The inputs: the source files the model is run on.                       *)
(***************************************************************************)
True == Constant(LBool(TRUE))
False == Constant(LBool(FALSE))

\* Sequences over pool of length at most n.
SeqsUpTo(pool, n) == UNION {[1..k -> pool] : k \in 0..n}

\* An optional keyword: absent, or name=value for a value of values.
OptKeyword(name, values) == {<<>>} \cup {<<Keyword(name, v)>> : v \in values}

\* The values a flag of the decorator is given.
FlagValues ==
    {True, False, Constant(LNone), Constant(LInt(0)), Constant(LInt(1)),
     Constant(LStr("")), Constant(LStr("yes")), NameExpr}

\* The values channel_count is given; -1 parses as a UnaryOp.
CountValues ==
    {Constant(LInt(1)), Constant(LInt(2)), Constant(LStr("4")),
     Constant(LStr("")), Constant(LNone), UnaryOpExpr}

\* @ugen(...) with every combination of the three channel options.
ChannelDecorators ==
    {CallDecorator("ugen", r \o m \o f \o c) :
        r \in OptKeyword("ar", {True}),
        m \in OptKeyword("is_multichannel", FlagValues),
        f \in OptKeyword("fixed_channel_count", FlagValues),
        c \in OptKeyword("channel_count", CountValues)}

\* @ugen(...) with one rate given any value and the others present or not.
RateDecoratorsOf(r) ==
    {CallDecorator("ugen",
         Concat([i \in 1..Len(RateNames) |->
                    IF i = r THEN v
                    ELSE IF i \in on THEN <<Keyword(RateNames[i], True)>>
                    ELSE <<>>])) :
        v \in OptKeyword(RateNames[r], FlagValues),
        on \in SUBSET (1..Len(RateNames))}

RateDecorators == UNION {RateDecoratorsOf(r) : r \in 1..Len(RateNames)}

\* The decorators of the lists of decorators.
DecoratorPool ==
    {BareDecorator("ugen"),
     BareDecorator("dataclass"),
     AttrDecorator("ugen"),
     AttrCallDecorator("ugen", <<Keyword("ar", True)>>),
     CallDecorator("register", <<Keyword("ar", True)>>),
     CallDecorator("ugen", <<Keyword("ar", True)>>),
     CallDecorator("ugen", <<Keyword("kr", True), Keyword("is_multichannel", True),
                             Keyword("channel_count", UnaryOpExpr)>>),
     CallDecorator("ugen", <<StarKeyword, Keyword("ar", NameExpr),
                             Keyword("new", True), Keyword("ir", False)>>)}

NameTarget(id) == Target("Name", id)
Unexpanded(v) == <<Keyword("unexpanded", v)>>

\* The statements of the class bodies.
StatementPool ==
    {AnnAssign(NameTarget("frequency"), ParamCall(Unexpanded(True))),
     AnnAssign(NameTarget("phase"), ParamCall(Unexpanded(False))),
     AnnAssign(NameTarget("phase"),
               ParamCall(<<Keyword("check", True)>> \o Unexpanded(NameExpr))),
     AnnAssign(NameTarget("channel_count"), ParamCall(<<>>)),
     AnnAssign(NameTarget("phase"), Value("Call", "Name", "field", Unexpanded(True))),
     AnnAssign(NameTarget("phase"), NoValue),
     Assign(<<NameTarget("phase")>>, ParamCall(Unexpanded(True))),
     Assign(<<NameTarget("frequency")>>, ParamCall(Unexpanded(Constant(LInt(0))))),
     Assign(<<NameTarget("frequency"), NameTarget("phase")>>,
            ParamCall(Unexpanded(Constant(LInt(1))))),
     Assign(<<NameTarget("phase"), Target("Attribute", "x"), NameTarget("frequency")>>,
            ParamCall(<<>>)),
     AnnAssign(Target("Attribute", "phase"), ParamCall(<<>>)),
     Assign(<<NameTarget("phase")>>, Value("Call", "Attribute", "param", <<>>)),
     Pass}

FrequencyParam == AnnAssign(NameTarget("frequency"), ParamCall(<<>>))

\* One class per file: the decorators and the bodies are varied in turn.
SingleClasses ==
    {ClassDef("SinOsc", <<d>>, <<>>, b) :
        d \in ChannelDecorators \cup RateDecorators,
        b \in {<<>>, <<FrequencyParam>>}}
    \cup {ClassDef("SinOsc", ds, <<>>, <<FrequencyParam>>) :
            ds \in SeqsUpTo(DecoratorPool, MaxDecorators)}
    \cup {ClassDef("SinOsc",
                   <<CallDecorator("ugen", <<Keyword("ar", True), Keyword("kr", True),
                                             Keyword("is_multichannel", True),
                                             Keyword("channel_count", Constant(LInt(2)))>>)>>,
                   <<>>, b) :
            b \in SeqsUpTo(StatementPool, MaxBody)}

\* Classes of files with several classes: with and without the marker,
\* with and without methods, bases and classes inside them.
Marked(name, body) ==
    ClassDef(name, <<CallDecorator("ugen", <<Keyword("ar", True)>>)>>,
             <<Base("Name", "UGen", "", "")>>, <<FrequencyParam>> \o body)

Unmarked(name, body) ==
    ClassDef(name, <<BareDecorator("dataclass")>>,
             <<Base("Name", "Enum", "", ""), Base("Attribute", "", "abc", "ABC"),
               Base("Other", "", "", "")>>,
             body)

Methods ==
    <<FunctionDef("__init__", <<>>,
                  Arguments(<<Arg("self", ""), Arg("bus", "int"), Arg("rate", "")>>,
                            <<"2">>, <<Arg("rest", "Any")>>,
                            <<Arg("flag", "bool"), Arg("mode", "")>>, <<"", "None">>,
                            <<Arg("kwargs", "")>>),
                  "", <<Pass>>),
      FunctionDef("size", <<BareDecorator("property")>>,
                  Arguments(<<Arg("self", "")>>, <<>>, <<>>, <<>>, <<>>, <<>>), "int",
                  <<Pass>>),
      FunctionDef("make", <<BareDecorator("classmethod")>>,
                  Arguments(<<Arg("cls", "")>>, <<>>, <<>>, <<>>, <<>>, <<>>), "",
                  <<Pass>>),
      FunctionDef("_helper", <<>>, NoArguments, "", <<Pass>>),
      FunctionDef("__call__", <<>>, NoArguments, "int", <<Pass>>),
      FunctionDef("__repr__", <<BareDecorator("staticmethod")>>, NoArguments, "str",
                  <<Pass>>)>>

\* def f(self): with these statements as its body.
Method(body) ==
    FunctionDef("f", <<>>, Arguments(<<Arg("self", "")>>, <<>>, <<>>, <<>>, <<>>, <<>>),
                "", body)

\* The top-level statements of the files: classes, and statements that hold
\* classes in their blocks.
StmtPool ==
    {Marked("A", <<>>), Unmarked("A", <<>>), Unmarked("B", Methods),
     Unmarked("A", <<Marked("B", <<>>)>>),
     Marked("B", <<Unmarked("A", <<>>), Pass>>),
     Unmarked("B", <<Method(<<Marked("A", <<>>)>>)>>),
     Method(<<Marked("B", <<>>)>>),
     If(<<Unmarked("B", <<>>)>>,
        <<Try(<<Pass>>, <<ExceptHandler(<<Unmarked("A", <<>>)>>)>>, <<>>,
              <<Marked("A", <<>>)>>)>>)}

NoiseModule == <<Unmarked("A", <<>>), Marked("Noise", <<>>)>>
CoreModule == <<Marked("UGen", <<>>)>>

\* The names of the files of the directory.
CorePy == <<99, 111, 114, 101, 46, 112, 121>>        \* "core.py"
NoisePy == <<110, 111, 105, 115, 101, 46, 112, 121>>     \* "noise.py"
OscPy == <<111, 115, 99, 46, 112, 121>>          \* "osc.py"

\* supriya/ugens before the first run: core.py, osc.py and perhaps noise.py.
Directory(osc, with_noise) ==
    [f \in {CorePy, OscPy} \cup (IF with_noise THEN {NoisePy} ELSE {}) |->
        CASE f = CorePy -> CoreModule
          [] f = OscPy -> osc
          [] OTHER -> NoiseModule]

Directories ==
    {Directory(<<c>>, FALSE) : c \in SingleClasses}
    \cup {Directory(m, n) : m \in SeqsUpTo(StmtPool, MaxClasses), n \in BOOLEAN}

(***************************************************************************)
(* The state machine: main() run after run.                                *)
(***************************************************************************)
\* main() has made no generator yet.
NoGenerator ==
    [source_path |-> <<>>, ugen_classes |-> <<>>, non_ugen_classes |-> <<>>]

Init ==
    /\ ugens_dir \in Directories
    /\ run = 0
    /\ pc = "idle"
    /\ ugen_files = <<>>
    /\ generator = NoGenerator
    /\ todo = <<>>
    /\ node = <<>>
    /\ ugen_decorator = <<>>
    /\ decorator_args = EmptyDict
    /\ params = <<>>

\* main() is started: the files are listed and sorted.
main ==
    /\ pc = "idle"
    /\ run < MaxRuns
    /\ ugen_files' = Sorted(Glob(ugens_dir))
    /\ pc' = "loop"
    /\ UNCHANGED <<ugens_dir, run, generator, todo, node, ugen_decorator,
                   decorator_args, params>>

\* The for loop takes a file: a generator is made for it, and generate()
\* reads and parses the file and starts to visit the tree.
generate ==
    /\ pc = "loop"
    /\ ugen_files # <<>>
    /\ generator' = NewGenerator(Head(ugen_files))
    /\ todo' = VisitOrder(ugens_dir[Head(ugen_files)])
    /\ ugen_files' = Tail(ugen_files)
    /\ pc' = "visit"
    /\ node' = <<>>
    /\ ugen_decorator' = <<>>
    /\ decorator_args' = EmptyDict
    /\ params' = <<>>
    /\ UNCHANGED <<ugens_dir, run>>

\* visit_ClassDef for the next class definition of the tree.
visit_ClassDef ==
    /\ pc = "visit"
    /\ todo # <<>>
    /\ LET cls == Head(todo)
           found == FindUgenDecorator(cls.decorator_list)
       IN /\ node' = <<cls>>
          /\ ugen_decorator' = found
          /\ \/ /\ found # <<>>
                /\ decorator_args' = _parse_decorator_args(found[1])
                /\ params' = _collect_params(cls)
                /\ generator' =
                     [generator EXCEPT !.ugen_classes =
                         Append(@, _generate_ugen_stub(cls.name, decorator_args', params'))]
             \/ /\ found = <<>>
                /\ decorator_args' = EmptyDict
                /\ params' = <<>>
                /\ generator' =
                     [generator EXCEPT !.non_ugen_classes = Append(@, cls.name)]
    /\ todo' = Tail(todo)
    /\ UNCHANGED <<ugens_dir, run, pc, ugen_files>>

\* The tree is visited: generate() builds the document and returns it, and
\* main() writes it, or skips the file.
write_stub ==
    /\ pc = "visit"
    /\ todo = <<>>
    /\ LET stub_content == StubContent(generator, ugens_dir[generator.source_path])
       IN \/ /\ HasClasses(generator)
             /\ ugens_dir' = WriteText(ugens_dir, StubFile(generator.source_path),
                                       stub_content)
          \/ /\ ~HasClasses(generator)
             /\ ugens_dir' = ugens_dir
    /\ pc' = "loop"
    /\ UNCHANGED <<run, ugen_files, generator, todo, node, ugen_decorator,
                   decorator_args, params>>

\* The for loop is over: main() returns.
main_return ==
    /\ pc = "loop"
    /\ ugen_files = <<>>
    /\ run' = run + 1
    /\ pc' = "idle"
    /\ UNCHANGED <<ugens_dir, ugen_files, generator, todo, node, ugen_decorator,
                   decorator_args, params>>

Next == main \/ generate \/ visit_ClassDef \/ write_stub \/ main_return

Spec == Init /\ [][Next]_vars

(***************************************************************************)
(* What the properties are stated with: the source read directly, not      *)
(* through the generator.                                                  *)
(***************************************************************************)
\* The decorator is the marker: bare `ugen`, or a call of the name `ugen`.
IsMarker(d) ==
    \/ d.kind = "Name" /\ d.id = "ugen"
    \/ d.kind = "Call" /\ d.func_kind = "Name" /\ d.id = "ugen"

IsMarkedClass(cls) ==
    /\ cls.type = "ClassDef"
    /\ \E i \in 1..Len(cls.decorator_list) : IsMarker(cls.decorator_list[i])

IsUnmarkedClass(cls) == cls.type = "ClassDef" /\ ~IsMarkedClass(cls)

\* The keyword arguments of d that are given a literal constant.
LiteralKeywords(d) ==
    {i \in 1..Len(d.keywords) :
        d.keywords[i].arg # <<>> /\ d.keywords[i].value.kind = "Constant"}

HasLiteral(d, name) ==
    \E i \in LiteralKeywords(d) : d.keywords[i].arg[1] = name

LiteralOf(d, name) ==
    d.keywords[CHOOSE i \in LiteralKeywords(d) : d.keywords[i].arg[1] = name]
        .value.value

\* The option is given a literal whose truth value is true.
OptionTrue(d, name) == HasLiteral(d, name) /\ Truthy(LiteralOf(d, name))

\* The option is given the literal True itself.
OptionIsTrue(d, name) == HasLiteral(d, name) /\ LiteralOf(d, name) = LBool(TRUE)

\* The names one statement declares as parameters: the name targets of an
\* assignment whose value is a call of the name `param`.
IsNameTarget(t) == t.kind = "Name"
DeclaredNames(item) ==
    IF /\ item.type \in {"AnnAssign", "Assign"}
       /\ item.value.kind = "Call"
       /\ item.value.func_kind = "Name"
       /\ item.value.func_id = "param"
    THEN [i \in 1..Len(SelectSeq(item.targets, IsNameTarget)) |->
              SelectSeq(item.targets, IsNameTarget)[i].id]
    ELSE <<>>

\* The names a class body declares, in the order of the body.
DeclaredIn(body) == Concat([k \in 1..Len(body) |-> DeclaredNames(body[k])])

\* The unexpanded keyword of a param() call: literally True; or absent,
\* literally False, or not a literal.
UnexpandedKeywords(value) ==
    {i \in 1..Len(value.keywords) : value.keywords[i].arg = <<"unexpanded">>}
UnexpandedIsTrue(value) ==
    \E i \in UnexpandedKeywords(value) : value.keywords[i].value = True
UnexpandedIsOff(value) ==
    \A i \in UnexpandedKeywords(value) :
        \/ value.keywords[i].value.kind # "Constant"
        \/ value.keywords[i].value = False

EntryNames(entries) == [i \in 1..Len(entries) |-> entries[i].name]

IsInitParamEntry(e) == e.annotation \in {"UGenVectorInput", "UGenScalarInput"}
IsRateParamEntry(e) == e.annotation = "UGenRecursiveInput"
IsIntChannelCount(e) == e.name = "channel_count" /\ e.annotation = "int"

\* visit_ClassDef has rendered the stub of a marked class.
Rendered == node # <<>> /\ ugen_decorator # <<>>
LastStub == generator.ugen_classes[Len(generator.ugen_classes)]

\* The file of the generator, the classes of it visited so far, and whether
\* generate() has returned for it.
HasFile == generator.source_path # <<>>
Tree == ugens_dir[generator.source_path]
VisitedClasses ==
    SubSeq(VisitOrder(Tree), 1, Len(VisitOrder(Tree)) - Len(todo))
Generated == HasFile /\ pc # "visit"
StubWritten == StubFile(generator.source_path) \in DOMAIN ugens_dir
WrittenText == ugens_dir[StubFile(generator.source_path)]

\* The text of a document made of these class stubs.
Document(stubs) ==
    Join(DropBlankTail(Preamble \o WithBlankLines(stubs)), "\n") \o "\n"

(***************************************************************************)
(* C1                                                                      *)
(***************************************************************************)
ChannelCountWanted(d) ==
    OptionTrue(d, "is_multichannel") /\ ~OptionTrue(d, "fixed_channel_count")

ChannelCountText(d) ==
    "channel_count: int = "
    \o (IF HasLiteral(d, "channel_count")
        THEN PyStr(LiteralOf(d, "channel_count")) ELSE "1")

\* entries holds the int-typed channel_count entry, once, with this text,
\* if wanted; and none if not.
ChannelCountRule(entries, d) ==
    LET found == SelectSeq(entries, IsIntChannelCount) IN
    IF ChannelCountWanted(d)
    THEN Len(found) = 1 /\ EntryStr(found[1]) = ChannelCountText(d)
    ELSE found = <<>>

\* C1: the constructor of a marked class has the parameter
\* `channel_count: int = <N>` iff the decorator gives is_multichannel a true
\* literal and does not give fixed_channel_count one, <N> being the literal of
\* channel_count, or 1; every rate factory emitted follows the same rule.
C1_ChannelCountIffMultichannelNotFixed ==
    Rendered =>
        /\ ChannelCountRule(InitParams(decorator_args, params), ugen_decorator[1])
        /\ EmittedRates(decorator_args) # <<>> =>
               ChannelCountRule(RateParams(decorator_args, params), ugen_decorator[1])

C1_Witness ==
    /\ Rendered
    /\ ChannelCountWanted(ugen_decorator[1])
    /\ HasLiteral(ugen_decorator[1], "fixed_channel_count")
    /\ ChannelCountText(ugen_decorator[1]) = "channel_count: int = 2"
    /\ EmittedRates(decorator_args) # <<>>
    /\ LastStub = _generate_ugen_stub(node[1].name, decorator_args, params)

(***************************************************************************)
(* C2                                                                      *)
(***************************************************************************)
\* C2 as claimed: a factory of a rate name is declared iff the decorator
\* gives that name the literal True itself.
C2_FactoryIffExactlyTrue ==
    Rendered =>
        \A i \in 1..Len(RateNames) :
            InList(RateNames[i], EmittedRates(decorator_args))
                <=> OptionIsTrue(ugen_decorator[1], RateNames[i])

\* C2 as amended: a factory of a rate name is declared iff the decorator
\* gives that name a literal whose truth value is true; the factories come
\* in the order ar, kr, ir, dr, new, each once.
C2_FactoryIffTruthy ==
    Rendered =>
        /\ \A i \in 1..Len(RateNames) :
               InList(RateNames[i], EmittedRates(decorator_args))
                   <=> OptionTrue(ugen_decorator[1], RateNames[i])
        /\ Len(UgenStubLines(node[1].name, decorator_args, params))
               = 2 + 2 * Len(params)
                   + 2 * Cardinality({i \in 1..Len(RateNames) :
                                         OptionTrue(ugen_decorator[1], RateNames[i])})

C2_Witness ==
    /\ Rendered
    /\ HasLiteral(ugen_decorator[1], "kr")
    /\ LiteralOf(ugen_decorator[1], "kr") = LInt(1)
    /\ EmittedRates(decorator_args) = <<"ar", "kr", "new">>

(***************************************************************************)
(* C3                                                                      *)
(***************************************************************************)
\* The constructor entry and the accessor of parameter i.
InitEntryOf(i) == SelectSeq(InitParams(decorator_args, params), IsInitParamEntry)[i]
AccessorOf(i) == PropertyStubs(params)[i]

BothVector(i) ==
    InitEntryOf(i).annotation = "UGenVectorInput"
        /\ AccessorOf(i).annotation = "UGenVector"
BothScalar(i) ==
    InitEntryOf(i).annotation = "UGenScalarInput"
        /\ AccessorOf(i).annotation = "UGenScalar"

\* The number of parameters the statements before statement k declare.
RECURSIVE DeclaredBefore(_, _)
DeclaredBefore(body, k) ==
    IF k <= 1 THEN 0
    ELSE DeclaredBefore(body, k - 1) + Len(DeclaredNames(body[k - 1]))

\* C3: the constructor type and the accessor type of a parameter are of
\* one family: the vector one when its param() call has unexpanded=True,
\* the scalar one when unexpanded is absent, False or not a literal.
C3_SameTypeFamily ==
    Rendered =>
        LET body == node[1].body IN
        /\ Len(params) = Len(DeclaredIn(body))
        /\ Len(SelectSeq(InitParams(decorator_args, params), IsInitParamEntry))
               = Len(params)
        /\ \A i \in 1..Len(params) : BothVector(i) \/ BothScalar(i)
        /\ \A k \in 1..Len(body) : \A t \in 1..Len(DeclaredNames(body[k])) :
               LET i == DeclaredBefore(body, k) + t IN
               /\ UnexpandedIsTrue(body[k].value) => BothVector(i)
               /\ UnexpandedIsOff(body[k].value) => BothScalar(i)

C3_Witness ==
    /\ Rendered
    /\ Len(node[1].body) = 2
    /\ UnexpandedIsTrue(node[1].body[1].value)
    /\ \E i \in UnexpandedKeywords(node[1].body[2].value) :
           node[1].body[2].value.keywords[i].value = NameExpr
    /\ params = <<<<"frequency", TRUE>>, <<"phase", FALSE>>>>
    /\ BothVector(1) /\ BothScalar(2)

(***************************************************************************)
(* C4                                                                      *)
(***************************************************************************)
\* C4: the scanner returns the param() targets in body order, one per name
\* target, duplicates kept; the constructor, the accessors and every rate
\* factory list the parameters in that order.
C4_DeclarationOrderKept ==
    Rendered =>
        LET names == DeclaredIn(node[1].body) IN
        /\ [i \in 1..Len(params) |-> params[i][1]] = names
        /\ EntryNames(SelectSeq(InitParams(decorator_args, params),
                                IsInitParamEntry)) = names
        /\ EntryNames(PropertyStubs(params)) = names
        /\ EntryNames(SelectSeq(RateParams(decorator_args, params),
                                IsRateParamEntry)) = names
        /\ LastStub = _generate_ugen_stub(node[1].name, decorator_args, params)

C4_Witness ==
    /\ Rendered
    /\ Len(node[1].body) = 2
    /\ Len(node[1].body[1].targets) = 3
    /\ DeclaredIn(node[1].body) = <<"phase", "frequency", "frequency", "phase">>
    /\ EmittedRates(decorator_args) # <<>>

(***************************************************************************)
(* C5                                                                      *)
(***************************************************************************)
\* C5 as claimed: the document holds class stubs of marked classes only,
\* and no stub file is written for a file without a marked class.
C5_OnlyMarkedClassesEmitted ==
    Generated /\ StubWritten =>
        /\ SelectSeq(VisitOrder(Tree), IsMarkedClass) # <<>>
        /\ WrittenText = Document(generator.ugen_classes)

\* C5 as amended: a class without the marker gets no UGen stub and is
\* recorded by name; it is emitted as a minimal stub of its own; and the
\* stub file is written iff the file holds a class definition, marked or not.
C5_UnmarkedGetMinimalStub ==
    HasFile =>
        LET unmarked == SelectSeq(VisitedClasses, IsUnmarkedClass) IN
        /\ Len(generator.ugen_classes)
               = Len(SelectSeq(VisitedClasses, IsMarkedClass))
        /\ generator.non_ugen_classes
               = [i \in 1..Len(unmarked) |-> unmarked[i].name]
        /\ Generated =>
               /\ StubWritten <=> VisitOrder(Tree) # <<>>
               /\ \A i \in 1..Len(unmarked) :
                      InList(_generate_non_ugen_stub(unmarked[i]),
                             _collect_non_ugen_stubs(generator, Tree))

C5_Witness ==
    /\ Generated
    /\ StubWritten
    /\ VisitOrder(Tree) # <<>>
    /\ SelectSeq(VisitOrder(Tree), IsMarkedClass) = <<>>
    /\ WrittenText = Document(_collect_non_ugen_stubs(generator, Tree))

(***************************************************************************)
(* C6                                                                      *)
(***************************************************************************)
\* C6: once main() has run, another run leaves every file of the directory
\* as it is; the files a run reads are the .py files, never a stub; and a
\* generator holds one entry per class of its own file, nothing of the
\* files or runs before it.
C6_SecondRunChangesNothing ==
    /\ [][run >= 1 => ugens_dir' = ugens_dir]_vars
    /\ [](\A i \in 1..Len(ugen_files) : Suffix(ugen_files[i]) = DotPy)
    /\ [](HasFile =>
            Len(generator.ugen_classes) + Len(generator.non_ugen_classes)
                = Len(VisitedClasses))

C6_Witness ==
    /\ run = 1
    /\ pc = "loop"
    /\ ugen_files = <<>>
    /\ generator.source_path = OscPy
    /\ generator.ugen_classes # <<>>
    /\ StubFile(NoisePy) \in DOMAIN ugens_dir
    /\ StubFile(OscPy) \in DOMAIN ugens_dir

(***************************************************************************)
(* C7                                                                      *)
(***************************************************************************)
\* The positions of the decorators that are the first marker of the list.
FirstMarkers(ds) ==
    {i \in 1..Len(ds) : IsMarker(ds[i]) /\ \A j \in 1..(i - 1) : ~IsMarker(ds[j])}

\* C7: the recognizer takes the first decorator that is `ugen`, bare or
\* called; the options are the keyword arguments of that decorator that are
\* given a literal, each with its value; a keyword that is not a literal is
\* left out, and a bare `@ugen` gives no option.
C7_FirstMarkerLiteralOptions ==
    node # <<>> =>
        LET ds == node[1].decorator_list IN
        IF FirstMarkers(ds) = {}
        THEN ugen_decorator = <<>>
        ELSE LET d == ds[CHOOSE i \in FirstMarkers(ds) : TRUE] IN
             /\ ugen_decorator = <<d>>
             /\ DOMAIN decorator_args
                    = {d.keywords[i].arg[1] : i \in LiteralKeywords(d)}
             /\ \A i \in LiteralKeywords(d) :
                    decorator_args[d.keywords[i].arg[1]] = d.keywords[i].value.value
             /\ d.kind = "Name" => decorator_args = EmptyDict

C7_Witness ==
    /\ node # <<>>
    /\ Len(node[1].decorator_list) = 2
    /\ IsMarker(node[1].decorator_list[1])
    /\ IsMarker(node[1].decorator_list[2])
    /\ node[1].decorator_list[1] # node[1].decorator_list[2]
    /\ Len(node[1].decorator_list[1].keywords) = 4
    /\ DOMAIN decorator_args = {"new", "ir"}

(***************************************************************************)
(* C8                                                                      *)
(***************************************************************************)
NoRateFlag(d) == \A i \in 1..Len(RateNames) : ~OptionTrue(d, RateNames[i])

\* C8 as claimed: a marked class that declares no parameter has the
\* constructor parameters self, *, calculation_rate, **kwargs and no other,
\* no accessor, and no factory if no rate flag is true.
C8_BareConstructor ==
    Rendered /\ DeclaredIn(node[1].body) = <<>> =>
        /\ EntryStrs(InitParams(decorator_args, params))
               = <<"self", "*", "calculation_rate: CalculationRateLike",
                   "**kwargs: Any">>
        /\ PropertyStubs(params) = <<>>
        /\ NoRateFlag(ugen_decorator[1]) => EmittedRates(decorator_args) = <<>>

\* C8 as amended: such a class has the constructor parameters self, *,
\* calculation_rate, then `channel_count: int = <N>` exactly when the rule of
\* the channel count asks for it, then **kwargs; no accessor; and, if no
\* rate flag is true, no factory: the stub is the header and the constructor.
C8_BareConstructorButChannelCount ==
    Rendered /\ DeclaredIn(node[1].body) = <<>> =>
        LET d == ugen_decorator[1]
            init == <<"self", "*", "calculation_rate: CalculationRateLike">>
                    \o (IF ChannelCountWanted(d) THEN <<ChannelCountText(d)>>
                        ELSE <<>>)
                    \o <<"**kwargs: Any">>
        IN /\ EntryStrs(InitParams(decorator_args, params)) = init
           /\ PropertyStubs(params) = <<>>
           /\ NoRateFlag(d) =>
                  LastStub = "class " \o node[1].name \o "(UGen):\n"
                             \o "    def __init__(" \o Join(init, ", ")
                             \o ") -> None: ..."

C8_Witness ==
    /\ Rendered
    /\ node[1].body = <<>>
    /\ NoRateFlag(ugen_decorator[1])
    /\ ChannelCountWanted(ugen_decorator[1])
    /\ LastStub = "class SinOsc(UGen):\n    def __init__(self, *, calculation_rate: CalculationRateLike, channel_count: int = 1, **kwargs: Any) -> None: ..."

(***************************************************************************)
(* C9                                                                      *)
(***************************************************************************)
\* The stub of one class: of the kind its decorators ask for.
StubOf(cls) ==
    IF IsMarkedClass(cls)
    THEN _generate_ugen_stub(
             cls.name,
             _parse_decorator_args(FindUgenDecorator(cls.decorator_list)[1]),
             _collect_params(cls))
    ELSE _generate_non_ugen_stub(cls)

UgenStubOf(cls) ==
    _generate_ugen_stub(
        cls.name,
        _parse_decorator_args(FindUgenDecorator(cls.decorator_list)[1]),
        _collect_params(cls))

StubsOf(classes) == [i \in 1..Len(classes) |-> StubOf(classes[i])]

\* The file is made of top-level classes with names of their own, and has
\* no other class.
PlainFile ==
    /\ VisitOrder(Tree) = Tree
    /\ \A i, j \in 1..Len(Tree) : Tree[i].name = Tree[j].name => i = j

\* C9 as claimed: the document is the preamble, then the class stubs in
\* the order their classes are declared in the file.  It is stated of the
\* files C10 holds of, where each class has one stub.
C9_DeclarationOrder ==
    Generated /\ StubWritten /\ PlainFile =>
        WrittenText = Document(StubsOf(VisitOrder(Tree)))

\* C9 as amended: the document is the preamble; then the minimal stubs,
\* one for each class definition that has the name of a class without the
\* marker, breadth first (the top-level classes in order, then the nested
\* ones); then the UGen stubs of the marked classes in declaration order.
C9_UnmarkedFirstThenMarkedInOrder ==
    Generated /\ StubWritten =>
        LET unmarked_names ==
                {VisitOrder(Tree)[i].name :
                    i \in {j \in 1..Len(VisitOrder(Tree)) :
                              IsUnmarkedClass(VisitOrder(Tree)[j])}}
            Named(cls) == cls.name \in unmarked_names
            minimal == SelectSeq(Walk(Tree), Named)
            marked == SelectSeq(VisitOrder(Tree), IsMarkedClass)
        IN WrittenText =
               Document([i \in 1..Len(minimal) |-> _generate_non_ugen_stub(minimal[i])]
                        \o [i \in 1..Len(marked) |-> UgenStubOf(marked[i])])

C9_Witness ==
    /\ Generated
    /\ StubWritten
    /\ Len(Tree) = 2
    /\ IsMarkedClass(Tree[1])
    /\ IsUnmarkedClass(Tree[2])
    /\ Tree[1].name # Tree[2].name
    /\ VisitOrder(Tree) = Tree
    /\ WrittenText = Document(<<StubOf(Tree[2]), StubOf(Tree[1])>>)

(***************************************************************************)
(* C10                                                                     *)
(***************************************************************************)
\* C10: no class definition is rendered twice: the document holds at most
\* one class stub for each class definition of the file (one for each
\* top-level one and none for a nested one, by the claim).
C10_NoClassRenderedTwice ==
    Generated =>
        Len(_collect_non_ugen_stubs(generator, Tree)) + Len(generator.ugen_classes)
            <= Len(VisitOrder(Tree))
====
